---------------------------- MODULE Spec2Model ----------------------------
(***************************************************************************)
(* Video storage and metadata subsystem of src/main.py: the uploads/       *)
(* directory (blob store), the "video" collection (metadata store) and the *)
(* four request handlers upload_video, list_videos, get_video and          *)
(* stream_file, run by concurrent requests.                                *)
(*                                                                         *)
(* Strings are sequences of one-character strings, bytes are sequences of  *)
(* small integers, an ObjectId is the sequence of the 24 nibbles of its 12 *)
(* bytes.  Python's None is the value None below.                          *)
(***************************************************************************)
EXTENDS Integers, Sequences, FiniteSets, TLC

\* ------------------------------------------------------------------ bounds

\* Number of requests the service receives (each runs one handler).
NumProcs == 3

\* Number of documents the collection holds when a search-only run starts.
MaxDocs == 2

\* ------------------------------------------------------- program constants

\* Length of the hexadecimal form of an ObjectId (bson: 12 bytes).
OidLen == 24

HTTP_OK == 200

HTTP_BAD_REQUEST == 400

HTTP_NOT_FOUND == 404

\* The framework's answer to an exception no handler catches.
HTTP_SERVER_ERROR == 500

\* ----------------------------------------------------------------- strings

None == <<"None">>

\* A field a document does not have.
Absent == <<"Absent">>

Procs == 1..NumProcs

UpperCase == <<"A", "B", "C", "D", "E", "F", "T">>

LowerCase == <<"a", "b", "c", "d", "e", "f", "t">>

\* str.lower() / the regex option "i", one character.
LowerChar(c) ==
    IF \E i \in 1..Len(UpperCase) : UpperCase[i] = c
    THEN LowerCase[CHOOSE i \in 1..Len(UpperCase) : UpperCase[i] = c]
    ELSE c

Lower(s) == [i \in 1..Len(s) |-> LowerChar(s[i])]

\* Python truthiness of an Optional[str]: None and "" are falsy.
Truthy(s) == s # None /\ s # <<>>

\* a or b
OrElse(a, b) == IF Truthy(a) THEN a ELSE b

\* s.startswith(prefix)
StartsWith(s, prefix) ==
    /\ Len(s) >= Len(prefix)
    /\ \A i \in 1..Len(prefix) : s[i] = prefix[i]

\* s.strip(), the whitespace being the space character.
RECURSIVE LStrip(_)
LStrip(s) == IF s # <<>> /\ Head(s) = " " THEN LStrip(Tail(s)) ELSE s

RECURSIVE RStrip(_)
RStrip(s) ==
    IF s # <<>> /\ s[Len(s)] = " " THEN RStrip(SubSeq(s, 1, Len(s) - 1)) ELSE s

Strip(s) == RStrip(LStrip(s))

\* s.split(sep) for a one-character separator: always at least one piece.
RECURSIVE Split(_, _)
Split(s, sep) ==
    IF \E i \in 1..Len(s) : s[i] = sep
    THEN LET i == CHOOSE k \in 1..Len(s) :
                     s[k] = sep /\ \A j \in 1..(k - 1) : s[j] # sep
         IN  <<SubSeq(s, 1, i - 1)>> \o Split(SubSeq(s, i + 1, Len(s)), sep)
    ELSE <<s>>

\* [t.strip() for t in (tags or "").split(",") if t.strip()]
RECURSIVE StripNonEmpty(_)
StripNonEmpty(parts) ==
    IF parts = <<>> THEN <<>>
    ELSE (IF Strip(Head(parts)) # <<>> THEN <<Strip(Head(parts))>> ELSE <<>>)
         \o StripNonEmpty(Tail(parts))

tag_list(tags) == StripNonEmpty(Split(OrElse(tags, <<>>), ","))

\* os.path.splitext(name)[1]: from the last dot on, unless that dot only
\* leads the name (names here hold no path separator).
splitext_ext(name) ==
    LET dots == {i \in 1..Len(name) : name[i] = "."}
        last == CHOOSE i \in dots : \A j \in dots : j <= i
    IN  IF dots = {} \/ (\A j \in 1..last : name[j] = ".")
        THEN <<>>
        ELSE SubSeq(name, last, Len(name))

\* --------------------------------------------------------------- ObjectId

HexDigits == <<"0", "1", "2", "3", "4", "5", "6", "7", "8", "9",
               "a", "b", "c", "d", "e", "f">>

IsHexChar(c) == \E i \in 1..Len(HexDigits) : HexDigits[i] = LowerChar(c)

HexVal(c) == (CHOOSE i \in 1..Len(HexDigits) : HexDigits[i] = LowerChar(c)) - 1

\* bson.ObjectId.is_valid for a str: 24 hexadecimal characters.
ObjectIdValid(s) == Len(s) = OidLen /\ \A i \in 1..Len(s) : IsHexChar(s[i])

\* ObjectId(s) for a valid s: the nibbles (bytes.fromhex accepts either case).
ObjectIdParse(s) == [i \in 1..Len(s) |-> HexVal(s[i])]

\* str(oid): lower-case hexadecimal.
ObjectIdStr(oid) == [i \in 1..Len(oid) |-> HexDigits[oid[i] + 1]]

\* The n-th ObjectId the generator hands out: ObjectId() never repeats.
NewObjectId(n) ==
    [i \in 1..OidLen |->
        IF i = OidLen THEN (n + 9) % 16
        ELSE IF i = OidLen - 1 THEN ((n + 9) \div 16) % 16
        ELSE 0]


\* -------------------------------------------------- the $regex search filter

\* The pattern language of the queries below: "." matches any character,
\* "^" and "$" assert the start and the end of the value, "(" opens a group
\* (no query here closes one, so a pattern holding it does not compile),
\* any other character matches itself; with option "i" case is ignored.
RegexCompiles(pat) == \A i \in 1..Len(pat) : pat[i] # "("

RECURSIVE RegexMatchAt(_, _, _)
RegexMatchAt(pat, s, i) ==
    IF pat = <<>> THEN TRUE
    ELSE LET c == Head(pat) IN
         CASE c = "^" -> i = 1 /\ RegexMatchAt(Tail(pat), s, i)
           [] c = "$" -> i = Len(s) + 1 /\ RegexMatchAt(Tail(pat), s, i)
           [] c = "." -> i <= Len(s) /\ RegexMatchAt(Tail(pat), s, i + 1)
           [] OTHER   -> /\ i <= Len(s)
                         /\ LowerChar(s[i]) = LowerChar(c)
                         /\ RegexMatchAt(Tail(pat), s, i + 1)

\* {"$regex": pat, "$options": "i"} on a string value: an unanchored search.
RegexSearch(pat, s) == \E i \in 1..(Len(s) + 1) : RegexMatchAt(pat, s, i)

\* {"$or": [{"title": regex}, {"description": regex}, {"tags": regex}]} on one
\* document: a null value matches nothing, an array matches by any element.
MatchesFilter(q, d) ==
    \/ RegexSearch(q, d.title)
    \/ d.description # None /\ RegexSearch(q, d.description)
    \/ \E k \in 1..Len(d.tags) : RegexSearch(q, d.tags[k])

\* ------------------------------------------------------------------ inputs

VideoPrefix == <<"v", "i", "d", "e", "o", "/">>

Mp4Upload ==
    [content_type |-> <<"v", "i", "d", "e", "o", "/", "m", "p", "4">>,
     filename     |-> <<"a", ".", "m", "p", "4">>,
     content      |-> <<1, 2>>,
     size         |-> 7,
     title        |-> None,
     description  |-> None,
     tags         |-> <<"a", ",", " ", "b", " ", ",", ",", "c">>]

CatUpload ==
    [content_type |-> <<"v", "i", "d", "e", "o", "/", "x">>,
     filename     |-> None,
     content      |-> <<3>>,
     size         |-> 0,
     title        |-> <<"C", "a", "t">>,
     description  |-> <<"d">>,
     tags         |-> None]

PngUpload ==
    [Mp4Upload EXCEPT !.content_type = <<"i", "m", "a", "g", "e", "/", "p", "n", "g">>]

UntypedUpload == [Mp4Upload EXCEPT !.content_type = None]

NoSlashUpload == [Mp4Upload EXCEPT !.content_type = <<"v", "i", "d", "e", "o">>]

\* What a client may send to POST /api/videos; size is the length the client
\* declares (UploadFile.size), which the handler never reads.
UploadInputs == {Mp4Upload, CatUpload, PngUpload, UntypedUpload, NoSlashUpload}

\* What a client may send to GET /api/videos/{video_id}: the ids of early
\* ObjectIds in lower and upper case, a short string, a 24-character string
\* that is not hexadecimal.
ViewInputs ==
    {ObjectIdStr(NewObjectId(2)),
     [i \in 1..OidLen |-> IF i = OidLen THEN "B" ELSE "0"],
     <<"a", "b", "c">>,
     [i \in 1..OidLen |-> IF i = OidLen THEN "t" ELSE "0"]}

\* What a client may send to GET /stream/{filename}.
StreamInputs ==
    {ObjectIdStr(NewObjectId(1)) \o <<".", "m", "p", "4">>,
     <<"a", ".", "m", "p", "4">>}

\* What a client may send as q to GET /api/videos.
ListInputs == {None, <<"c", "a", "t">>}

QueryInputs ==
    {None, <<>>, <<"c", "a", "t">>, <<"A", "T">>, <<"b">>, <<".">>,
     <<"^", "c">>, <<"t", "$">>, <<"(">>}

\* ------------------------------------------------------------------- state

VARIABLES
    fs,          \* the uploads/ directory: file name -> bytes
    video,       \* the "video" collection, in insertion order
    oidCounter,  \* how many ObjectIds have been generated
    pc,          \* each request's position in its handler
    req,         \* each request's operation and input
    loc,         \* each handler's local variables
    resp         \* each request's response

vars == <<fs, video, oidCounter, pc, req, loc, resp>>

NoReq == [op |-> "none"]

NoLoc == [safe_name |-> None, doc |-> None]

NoResp == [status |-> 0, body |-> None]

ProcInit ==
    /\ pc = [p \in Procs |-> "idle"]
    /\ req = [p \in Procs |-> NoReq]
    /\ loc = [p \in Procs |-> NoLoc]
    /\ resp = [p \in Procs |-> NoResp]

\* The service starts with an empty uploads/ directory and collection.
Init ==
    /\ fs = <<>>
    /\ video = <<>>
    /\ oidCounter = 0
    /\ ProcInit

\* Requests are numbered in their order of arrival.
Arrives(p) == pc[p] = "idle" /\ \A q \in Procs : q < p => pc[q] # "idle"

Respond(p, status, body) ==
    /\ resp' = [resp EXCEPT ![p] = [status |-> status, body |-> body]]
    /\ pc' = [pc EXCEPT ![p] = "done"]

\* os.path.exists(os.path.join(STORAGE_DIR, name))
Exists(name) == name \in DOMAIN fs

\* Writing bytes b under name (creating or replacing the file).
WriteFile(name, b) == [n \in DOMAIN fs \cup {name} |-> IF n = name THEN b ELSE fs[n]]

Prefixes(b) == {SubSeq(b, 1, n) : n \in 0..Len(b)}

\* The positions of the documents with this _id.
Find(id) == {i \in 1..Len(video) : video[i]._id = id}

\* The response projection of list_videos and get_video.
Projection(d) ==
    [id           |-> ObjectIdStr(d._id),
     title        |-> d.title,
     description  |-> d.description,
     filename     |-> d.filename,
     content_type |-> d.content_type,
     size         |-> d.size,
     views        |-> d.views,
     tags         |-> d.tags,
     created_at   |-> d.created_at]


\* ------------------------------------------------ POST /api/videos (upload)

\* Mutant: the prefix tested without its slash.
IsVideoType_NoSlash(content_type) ==
    content_type # None /\ StartsWith(content_type, <<"v", "i", "d", "e", "o">>)

\* file.content_type is not None and file.content_type.startswith("video/")
IsVideoType(content_type) ==
    content_type # None /\ StartsWith(content_type, VideoPrefix)

\* Mutant: the file stored under the client's own file name.
SafeName_ClientName(n, filename) == OrElse(filename, <<"u", "p", "l", "o", "a", "d">>)

\* f"{ObjectId()}{os.path.splitext(file.filename or '')[1]}", with the n-th
\* ObjectId.
SafeName(n, filename) ==
    ObjectIdStr(NewObjectId(n)) \o splitext_ext(OrElse(filename, <<>>))

\* Mutant: the size the client declared instead of len(content).
VideoDoc_DeclaredSize(in, safe_name, content) ==
    [title        |-> OrElse(in.title, OrElse(in.filename, <<"Untitled">>)),
     description  |-> in.description,
     filename     |-> safe_name,
     content_type |-> in.content_type,
     size         |-> in.size,
     views        |-> 0,
     tags         |-> tag_list(in.tags)]

\* Video(title=..., description=..., filename=safe_name, content_type=...,
\* size=len(content), tags=tag_list); views takes the schema's default.
VideoDoc(in, safe_name, content) ==
    [title        |-> OrElse(in.title, OrElse(in.filename, <<"Untitled">>)),
     description  |-> in.description,
     filename     |-> safe_name,
     content_type |-> in.content_type,
     size         |-> Len(content),
     views        |-> 0,
     tags         |-> tag_list(in.tags)]

\* create_document("video", data): the stored document gets a new _id and
\* the time of insertion, and the collection gets the document appended.
StoredDoc(data, n, now) ==
    [_id          |-> NewObjectId(n),
     title        |-> data.title,
     description  |-> data.description,
     filename     |-> data.filename,
     content_type |-> data.content_type,
     size         |-> data.size,
     views        |-> data.views,
     tags         |-> data.tags,
     created_at   |-> now,
     updated_at   |-> Absent]

create_document(data, n) == Append(video, StoredDoc(data, n, Len(video) + 1))

\* The content-type check, then the storage name; the handler then awaits
\* file.read().
upload_video_check(p) ==
    /\ Arrives(p)
    /\ \E in \in UploadInputs :
        /\ req' = [req EXCEPT ![p] = [op |-> "upload", in |-> in]]
        /\ IF ~IsVideoType(in.content_type)
           THEN /\ Respond(p, HTTP_BAD_REQUEST, <<"Only video files are allowed">>)
                /\ UNCHANGED <<oidCounter, loc>>
           ELSE /\ oidCounter' = oidCounter + 1
                /\ loc' = [loc EXCEPT ![p].safe_name =
                                         SafeName(oidCounter + 1, in.filename)]
                /\ pc' = [pc EXCEPT ![p] = "read"]
                /\ UNCHANGED resp
    /\ UNCHANGED <<fs, video>>

\* content = await file.read(); open(destination, "wb"): the file exists and
\* is empty, or the open raises and nothing exists.  The directory is shared
\* with every other worker process of the service, so what a reader of the
\* directory sees between this step and the next is part of the state.
upload_video_open(p) ==
    /\ pc[p] = "read"
    /\ \/ /\ fs' = WriteFile(loc[p].safe_name, <<>>)
          /\ pc' = [pc EXCEPT ![p] = "write"]
          /\ UNCHANGED resp
       \/ /\ Respond(p, HTTP_SERVER_ERROR, <<"OSError">>)
          /\ UNCHANGED fs
    /\ UNCHANGED <<video, oidCounter, req, loc>>

\* f.write(content) and the close of the with block: the file holds the
\* content, or the write raises having written some part of it.
upload_video_write(p) ==
    /\ pc[p] = "write"
    /\ \/ /\ fs' = WriteFile(loc[p].safe_name, req[p].in.content)
          /\ pc' = [pc EXCEPT ![p] = "insert"]
          /\ UNCHANGED resp
       \/ /\ \E part \in Prefixes(req[p].in.content) \ {req[p].in.content} :
                 fs' = WriteFile(loc[p].safe_name, part)
          /\ Respond(p, HTTP_SERVER_ERROR, <<"OSError">>)
    /\ UNCHANGED <<video, oidCounter, req, loc>>

\* Mutant: a failed insert rolls the upload back by removing the file.
upload_video_insert_rollback(p) ==
    /\ pc[p] = "insert"
    /\ \/ /\ video' = create_document(
                          VideoDoc(req[p].in, loc[p].safe_name, req[p].in.content),
                          oidCounter + 1)
          /\ oidCounter' = oidCounter + 1
          /\ Respond(p, HTTP_OK,
                     <<"id", ObjectIdStr(NewObjectId(oidCounter + 1))>>)
          /\ UNCHANGED fs
       \/ /\ Respond(p, HTTP_SERVER_ERROR, <<"PyMongoError">>)
          /\ fs' = [n \in DOMAIN fs \ {loc[p].safe_name} |-> fs[n]]
          /\ UNCHANGED <<video, oidCounter>>
    /\ UNCHANGED <<req, loc>>

\* The tag list, the Video document and create_document: the document is
\* inserted and its id returned, or the insert raises; nothing is caught.
upload_video_insert(p) ==
    /\ pc[p] = "insert"
    /\ \/ /\ video' = create_document(
                          VideoDoc(req[p].in, loc[p].safe_name, req[p].in.content),
                          oidCounter + 1)
          /\ oidCounter' = oidCounter + 1
          /\ Respond(p, HTTP_OK,
                     <<"id", ObjectIdStr(NewObjectId(oidCounter + 1))>>)
       \/ /\ Respond(p, HTTP_SERVER_ERROR, <<"PyMongoError">>)
          /\ UNCHANGED <<video, oidCounter>>
    /\ UNCHANGED <<fs, req, loc>>

\* -------------------------------------------------- GET /api/videos (list)

\* get_documents("video", filter_dict): the documents the filter matches, in
\* insertion order.
RECURSIVE get_documents(_, _)
get_documents(docs, q) ==
    IF docs = <<>> THEN <<>>
    ELSE (IF ~Truthy(q) \/ MatchesFilter(q, Head(docs))
          THEN <<Projection(Head(docs))>> ELSE <<>>)
         \o get_documents(Tail(docs), q)

\* The whole handler: it awaits nothing.  A pattern the store cannot compile
\* makes get_documents raise.
list_videos(p, queries) ==
    /\ Arrives(p)
    /\ \E q \in queries :
        /\ req' = [req EXCEPT ![p] = [op |-> "list", in |-> q]]
        /\ IF Truthy(q) /\ ~RegexCompiles(q)
           THEN Respond(p, HTTP_SERVER_ERROR, <<"OperationFailure">>)
           ELSE Respond(p, HTTP_OK, get_documents(video, q))
    /\ UNCHANGED <<fs, video, oidCounter, loc>>

\* --------------------------------------------- GET /api/videos/{video_id}

\* _id = ObjectId(video_id), or 400.
get_video_parse(p) ==
    /\ Arrives(p)
    /\ \E video_id \in ViewInputs :
        /\ req' = [req EXCEPT ![p] = [op |-> "view", in |-> video_id]]
        /\ IF ObjectIdValid(video_id)
           THEN /\ pc' = [pc EXCEPT ![p] = "update"]
                /\ UNCHANGED resp
           ELSE Respond(p, HTTP_BAD_REQUEST, <<"Invalid video id">>)
    /\ UNCHANGED <<fs, video, oidCounter, loc>>

\* Mutant: find_one, then update_one with the value read, as two operations.
get_video_update_racy(p) ==
    LET _id == ObjectIdParse(req[p].in)
        i == CHOOSE k \in Find(_id) : \A j \in Find(_id) : k <= j
    IN  \/ /\ pc[p] = "update"
           /\ Find(_id) = {}
           /\ Respond(p, HTTP_NOT_FOUND, <<"Video not found">>)
           /\ UNCHANGED <<fs, video, oidCounter, req, loc>>
        \/ /\ pc[p] = "update"
           /\ Find(_id) # {}
           /\ loc' = [loc EXCEPT ![p].doc = video[i]]
           /\ pc' = [pc EXCEPT ![p] = "racing"]
           /\ UNCHANGED <<fs, video, oidCounter, req, resp>>
        \/ /\ pc[p] = "racing"
           /\ LET after == [video[i] EXCEPT !.views = loc[p].doc.views + 1,
                                            !.updated_at = None]
              IN  /\ video' = [video EXCEPT ![i] = after]
                  /\ loc' = [loc EXCEPT ![p].doc = after]
                  /\ Respond(p, HTTP_OK, Projection(after))
           /\ UNCHANGED <<fs, oidCounter, req>>

\* Mutant: return_document=BEFORE.
get_video_update_before(p) ==
    /\ pc[p] = "update"
    /\ LET _id == ObjectIdParse(req[p].in) IN
       IF Find(_id) = {}
       THEN /\ Respond(p, HTTP_NOT_FOUND, <<"Video not found">>)
            /\ UNCHANGED <<video, loc>>
       ELSE LET i == CHOOSE k \in Find(_id) : \A j \in Find(_id) : k <= j
                after == [video[i] EXCEPT !.views = @ + 1, !.updated_at = None]
            IN  /\ video' = [video EXCEPT ![i] = after]
                /\ loc' = [loc EXCEPT ![p].doc = video[i]]
                /\ Respond(p, HTTP_OK, Projection(video[i]))
    /\ UNCHANGED <<fs, oidCounter, req>>

\* Mutant: upsert=True, a missing document is created by the update.
get_video_update_upsert(p) ==
    /\ pc[p] = "update"
    /\ LET _id == ObjectIdParse(req[p].in) IN
       IF Find(_id) = {}
       THEN LET made == [_id |-> _id, views |-> 1, updated_at |-> None,
                         title |-> None, description |-> None,
                         filename |-> None, content_type |-> None,
                         size |-> 0, tags |-> <<>>, created_at |-> 0]
            IN  /\ video' = Append(video, made)
                /\ loc' = [loc EXCEPT ![p].doc = made]
                /\ Respond(p, HTTP_OK, Projection(made))
       ELSE LET i == CHOOSE k \in Find(_id) : \A j \in Find(_id) : k <= j
                after == [video[i] EXCEPT !.views = @ + 1, !.updated_at = None]
            IN  /\ video' = [video EXCEPT ![i] = after]
                /\ loc' = [loc EXCEPT ![p].doc = after]
                /\ Respond(p, HTTP_OK, Projection(after))
    /\ UNCHANGED <<fs, oidCounter, req>>

\* db["video"].find_one_and_update({"_id": _id}, {"$inc": {"views": 1},
\* "$set": {"updated_at": None}}, return_document=AFTER): one indivisible
\* operation of the store; then 404 or the projection of the document.
get_video_update(p) ==
    /\ pc[p] = "update"
    /\ LET _id == ObjectIdParse(req[p].in) IN
       IF Find(_id) = {}
       THEN /\ Respond(p, HTTP_NOT_FOUND, <<"Video not found">>)
            /\ UNCHANGED <<video, loc>>
       ELSE LET i == CHOOSE k \in Find(_id) : \A j \in Find(_id) : k <= j
                after == [video[i] EXCEPT !.views = @ + 1, !.updated_at = None]
            IN  /\ video' = [video EXCEPT ![i] = after]
                /\ loc' = [loc EXCEPT ![p].doc = after]
                /\ Respond(p, HTTP_OK, Projection(after))
    /\ UNCHANGED <<fs, oidCounter, req>>

\* ------------------------------------------------- GET /stream/{filename}

\* os.path.exists(path), or 404; the FileResponse is sent after the handler
\* has returned.
stream_file(p) ==
    /\ Arrives(p)
    /\ \E filename \in StreamInputs :
        /\ req' = [req EXCEPT ![p] = [op |-> "stream", in |-> filename]]
        /\ IF Exists(filename)
           THEN /\ pc' = [pc EXCEPT ![p] = "send"]
                /\ UNCHANGED resp
           ELSE Respond(p, HTTP_NOT_FOUND, <<"File not found">>)
    /\ UNCHANGED <<fs, video, oidCounter, loc>>

\* FileResponse(path): the bytes the file holds when it is sent.
file_response(p) ==
    /\ pc[p] = "send"
    /\ Respond(p, HTTP_OK, fs[req[p].in])
    /\ UNCHANGED <<fs, video, oidCounter, req, loc>>

\* ---------------------------------------------------------- specification

Next ==
    \E p \in Procs :
        \/ upload_video_check(p)
        \/ upload_video_open(p)
        \/ upload_video_write(p)
        \/ upload_video_insert(p)
        \/ list_videos(p, ListInputs)
        \/ get_video_parse(p)
        \/ get_video_update(p)
        \/ stream_file(p)
        \/ file_response(p)

Spec == Init /\ [][Next]_vars


\* ------------------------------------------------- search over a collection

DogUpload ==
    [CatUpload EXCEPT !.title = <<"d", "o", "g">>,
                      !.description = <<"T", "h", "e", " ", "c", "a", "t">>,
                      !.tags = <<"B", "A", "T">>]

TaggedUpload ==
    [CatUpload EXCEPT !.title = <<"x">>,
                      !.description = <<>>,
                      !.tags = <<"e", ",", "C", "a", "t">>]

QueryUploads == {Mp4Upload, CatUpload, DogUpload, TaggedUpload}

\* The collection and the directory after these uploads ran one after the
\* other, each to its end.
VideoAfter(ins) ==
    [i \in 1..Len(ins) |->
        StoredDoc(VideoDoc(ins[i], SafeName(2 * i - 1, ins[i].filename),
                           ins[i].content),
                  2 * i, i)]

FsAfter(ins) ==
    [n \in {SafeName(2 * i - 1, ins[i].filename) : i \in 1..Len(ins)} |->
        LET i == CHOOSE k \in 1..Len(ins) : SafeName(2 * k - 1, ins[k].filename) = n
        IN  ins[i].content]

QueryInit ==
    /\ \E n \in 1..MaxDocs : \E ins \in [1..n -> QueryUploads] :
        /\ video = VideoAfter(ins)
        /\ fs = FsAfter(ins)
        /\ oidCounter = 2 * n
    /\ ProcInit

QueryNext == list_videos(1, QueryInputs)

\* One search request against a collection that earlier uploads filled.
SpecQuery == QueryInit /\ [][QueryNext]_vars

\* ------------------------------------------------------------------ claims

IsUpload(p) == req[p].op = "upload"

IsView(p) == req[p].op = "view"

Succeeded(p) == pc[p] = "done" /\ resp[p].status = HTTP_OK

\* The successful view requests on the document with this _id.
ViewsServed(id) ==
    {p \in Procs : IsView(p) /\ Succeeded(p) /\ resp[p].body.id = ObjectIdStr(id)}

\* C1: at every moment each document's view counter equals the number of
\* view requests on its id that have completed successfully: with the
\* counter at 0 on insertion, N completed views leave it at exactly N more,
\* whatever the interleaving.
C1_NoLostIncrement ==
    \A i \in 1..Len(video) :
        video[i].views = Cardinality(ViewsServed(video[i]._id))

\* Two view requests on one document have completed and its counter is 2.
C1_Witness ==
    \E i \in 1..Len(video) :
        /\ video[i].views = 2
        /\ Cardinality(ViewsServed(video[i]._id)) = 2

\* C2: a successful view returns the counter as its own increment left it
\* (one more than before), and that value is greater than every value an
\* earlier successful view of the same id returned: returned values are
\* pairwise distinct and ordered as the increments took effect.
C2_ReturnsPostIncrement ==
    [][\A p \in Procs :
        (pc[p] = "update" /\ pc'[p] = "done" /\ resp'[p].status = HTTP_OK) =>
            LET i == CHOOSE k \in 1..Len(video) :
                         ObjectIdStr(video[k]._id) = resp'[p].body.id
            IN  /\ resp'[p].body.views = video[i].views + 1
                /\ resp'[p].body.views = video'[i].views
                /\ \A q \in ViewsServed(video[i]._id) :
                       resp[q].body.views < resp'[p].body.views]_vars

C2_Witness ==
    \E p, q \in Procs :
        /\ IsView(p) /\ Succeeded(p)
        /\ IsView(q) /\ Succeeded(q)
        /\ resp[p].body.id = resp[q].body.id
        /\ resp[p].body.views = 1
        /\ resp[q].body.views = 2

\* C3: a stream request that succeeds returns the complete content of the
\* upload that wrote the file, never an empty or partial file.
C3_StreamNeverPartial ==
    \A s \in Procs :
        (req[s].op = "stream" /\ Succeeded(s)) =>
            \E u \in Procs :
                /\ IsUpload(u)
                /\ loc[u].safe_name = req[s].in
                /\ resp[s].body = req[u].in.content

\* C4: the step that takes an upload in rejects it with 400, leaving files
\* and documents as they were, exactly when its content type is absent or
\* does not begin with "video/"; otherwise the upload goes on.
C4_RejectsNonVideo ==
    [][\A p \in Procs :
        (pc[p] = "idle" /\ req'[p].op = "upload") =>
            LET ct == req'[p].in.content_type
                bad == \/ ct = None
                       \/ Len(ct) < 6
                       \/ SubSeq(ct, 1, 6) # <<"v", "i", "d", "e", "o", "/">>
            IN  IF bad
                THEN /\ pc'[p] = "done"
                     /\ resp'[p].status = HTTP_BAD_REQUEST
                     /\ fs' = fs
                     /\ video' = video
                ELSE /\ pc'[p] # "done"
                     /\ resp'[p].status # HTTP_BAD_REQUEST]_vars

\* One upload was rejected for its type "video" and one video upload was
\* stored.
C4_Witness ==
    \E p, q \in Procs :
        /\ IsUpload(p) /\ pc[p] = "done" /\ resp[p].status = HTTP_BAD_REQUEST
        /\ req[p].in.content_type = <<"v", "i", "d", "e", "o">>
        /\ IsUpload(q) /\ Succeeded(q)

\* C5: every document's filename names a file of the directory, and its
\* size is the number of bytes that file holds.
C5_RecordHasBlob ==
    \A i \in 1..Len(video) :
        /\ Exists(video[i].filename)
        /\ video[i].size = Len(fs[video[i].filename])

\* A document exists whose upload declared a size other than its length,
\* while another upload is writing.
C5_Witness ==
    \E p, q \in Procs :
        /\ IsUpload(p) /\ Succeeded(p)
        /\ req[p].in.size # Len(req[p].in.content)
        /\ \E i \in 1..Len(video) : video[i].filename = loc[p].safe_name
        /\ pc[q] = "write"

\* C6: a failed upload leaves the collection as it was and no document ever
\* names its file; when it was the insert that failed, the file stays in the
\* directory with the full content.
C6_FailedUploadNoRecord ==
    [][\A p \in Procs :
        (IsUpload(p) /\ pc'[p] = "done" /\ resp'[p].status = HTTP_SERVER_ERROR) =>
            /\ pc[p] # "done" => video' = video
            /\ \A i \in 1..Len(video') : video'[i].filename # loc'[p].safe_name
            /\ resp'[p].body = <<"PyMongoError">> =>
                  /\ loc'[p].safe_name \in DOMAIN fs'
                  /\ fs'[loc'[p].safe_name] = req[p].in.content]_vars

\* One upload failed writing its file, another failed at the insert and left
\* an orphan file.
C6_Witness ==
    \E p, q \in Procs :
        /\ IsUpload(p) /\ pc[p] = "done" /\ resp[p].body = <<"OSError">>
        /\ IsUpload(q) /\ pc[q] = "done" /\ resp[q].body = <<"PyMongoError">>
        /\ Exists(loc[q].safe_name)
        /\ \A i \in 1..Len(video) : video[i].filename # loc[q].safe_name

IsHex24(s) ==
    /\ Len(s) = 24
    /\ \A i \in 1..Len(s) :
           s[i] \in {"0", "1", "2", "3", "4", "5", "6", "7", "8", "9",
                     "a", "b", "c", "d", "e", "f", "A", "B", "C", "D", "E", "F"}

\* C7: a view of a string that is not 24 hexadecimal characters ends with
\* 400 in its first step, before the store is reached; a view of a
\* well-formed id ends with 404 exactly when no document has that id; either
\* failure leaves the collection and the directory as they were.
C7_ViewErrors ==
    [][\A p \in Procs :
        /\ (pc[p] = "idle" /\ req'[p].op = "view") =>
              IF IsHex24(req'[p].in)
              THEN pc'[p] = "update" /\ resp'[p] = resp[p]
              ELSE /\ pc'[p] = "done"
                   /\ resp'[p].status = HTTP_BAD_REQUEST
                   /\ video' = video
                   /\ fs' = fs
        /\ (pc[p] = "update" /\ pc'[p] = "done") =>
              IF \E i \in 1..Len(video) : ObjectIdStr(video[i]._id) = Lower(req[p].in)
              THEN resp'[p].status = HTTP_OK
              ELSE /\ resp'[p].status = HTTP_NOT_FOUND
                   /\ video' = video
                   /\ fs' = fs]_vars

\* One view was refused as malformed and one found no document, with a
\* document in the collection.
C7_Witness ==
    \E p, q \in Procs :
        /\ IsView(p) /\ pc[p] = "done" /\ resp[p].status = HTTP_BAD_REQUEST
        /\ IsView(q) /\ pc[q] = "done" /\ resp[q].status = HTTP_NOT_FOUND
        /\ Len(video) > 0

\* C8: no step removes a document, and a step changes an existing document
\* only as a successful view of it, which adds 1 to views and changes no
\* other field.
C8_OnlyViewsChanges ==
    [][/\ Len(video') >= Len(video)
       /\ \A i \in 1..Len(video) :
            \/ video'[i] = video[i]
            \/ /\ video'[i] = [video[i] EXCEPT !.views = @ + 1]
               /\ \E p \in Procs :
                    /\ pc[p] = "update" /\ pc'[p] = "done"
                    /\ resp'[p].status = HTTP_OK
                    /\ ObjectIdParse(req[p].in) = video[i]._id]_vars

\* q occurs in s as a substring, case ignored.
ContainsIgnoreCase(s, q) ==
    \E i \in 1..(Len(s) - Len(q) + 1) :
        Lower(SubSeq(s, i, i + Len(q) - 1)) = Lower(q)

LiteralMatch(q, d) ==
    \/ ContainsIgnoreCase(d.title, q)
    \/ d.description # None /\ ContainsIgnoreCase(d.description, q)
    \/ \E k \in 1..Len(d.tags) : ContainsIgnoreCase(d.tags[k], q)

RECURSIVE LiteralSearch(_, _)
LiteralSearch(docs, q) ==
    IF docs = <<>> THEN <<>>
    ELSE (IF ~Truthy(q) \/ LiteralMatch(q, Head(docs))
          THEN <<Projection(Head(docs))>> ELSE <<>>)
         \o LiteralSearch(Tail(docs), q)

\* C9: a search answers with exactly the documents that hold q, read as a
\* literal string, as a case-insensitive substring of the title, of the
\* description or of a tag; with q absent or empty, with all documents.
C9_LiteralSubstringSearch ==
    \A p \in Procs :
        (req[p].op = "list" /\ pc[p] = "done") =>
            /\ resp[p].status = HTTP_OK
            /\ resp[p].body = LiteralSearch(video, req[p].in)

\* C10: any two documents differ in filename and in _id.
C10_DistinctKeys ==
    \A i, j \in 1..Len(video) :
        i # j => /\ video[i].filename # video[j].filename
                 /\ video[i]._id # video[j]._id

\* Two uploads of the same bytes under the same client file name overlapped:
\* the first to arrive took its storage name first and was inserted second.
C10_Witness ==
    /\ Len(video) = 2
    /\ IsUpload(1) /\ IsUpload(2)
    /\ req[1] = req[2]
    /\ video[1].filename = loc[2].safe_name
    /\ video[2].filename = loc[1].safe_name

=============================================================================
